---- MODULE Spec2Model ----
(***************************************************************************)
(* Model of the form controller useFormValidator (src/unnamed/part_000,    *)
(* whose header names it src/useFormValidator.js) and of the validator     *)
(* registry (src/src/validators.js).                                       *)
(*                                                                         *)
(* JavaScript values are modelled as follows.  A field value is a string;  *)
(* the value `undefined` (an absent key read through obj[key]) is the      *)
(* reserved string Undefined.  An object used as a map (values, touched,   *)
(* errors, a schema) is a function whose DOMAIN is Object.keys(obj).       *)
(* Every handler is called from the latest render, so the `values`,        *)
(* `touched` a handler closes over are the current ones, while the         *)
(* functional updates (prev => ...) act on the current state.              *)
(***************************************************************************)
EXTENDS Integers, Sequences, FiniteSets, TLC

(***************************************************************************)
(* Bounds of the model.                                                    *)
(***************************************************************************)
MaxPending == 1
MaxNum == 11

(***************************************************************************)
(* State.                                                                  *)
(***************************************************************************)
VARIABLES
  validationSchema,  \* argument of the hook
  initialValues,     \* argument of the hook
  options,           \* argument of the hook
  values,            \* useState(initialValues)
  touched,           \* useState({})
  errors,            \* useState({})
  isSubmitting,      \* useState(false)
  pending,           \* the onSubmit calls awaited by handleSubmit
  uncaught,          \* a failure of onSubmit left handleSubmit
  last,              \* the operation that led to this state
  call               \* a call of a validator made by createValidator

(***************************************************************************)
(* JavaScript values.                                                      *)
(***************************************************************************)
Undefined == "<undefined>"

EmptyMap == << >>

\* obj[key]
Get(obj, key) == IF key \in DOMAIN obj THEN obj[key] ELSE Undefined

\* { ...obj, [key]: val }
Spread(obj, key, val) ==
  [k \in (DOMAIN obj) \cup {key} |-> IF k = key THEN val ELSE obj[k]]

\* !value, for a string or undefined
Falsy(value) == value = Undefined \/ value = ""

Digits == <<"0", "1", "2", "3", "4", "5", "6", "7", "8", "9">>

\* `${n}` for a non-negative integer
RECURSIVE NumToString(_)
NumToString(n) ==
  IF n < 10 THEN Digits[n + 1]
  ELSE NumToString(n \div 10) \o Digits[(n % 10) + 1]

(***************************************************************************)
(* Validator registry: src/src/validators.js.  The entries modelled are    *)
(* the ones the schemas below name.                                        *)
(***************************************************************************)
BuiltInNames == {"required", "minLength", "maxLength", "matches"}

\* a TypeError raised by the evaluation, which leaves the resolver
Raised == "<TypeError>"

\* required written with !value: 0 and false are reported too
requiredOfFalsy(v) ==
  IF \/ v.type \in {"null", "undefined"}
     \/ v \in {[type |-> "string", value |-> ""], [type |-> "number", value |-> "0"],
               [type |-> "boolean", value |-> "false"]}
  THEN "This field is required"
  ELSE IF v.type = "array" /\ Len(v.elements) = 0
  THEN "This field is required"
  ELSE ""

\* validators.js:10-18  required(value), for a JavaScript value of any type:
\* a record of its typeof (with "null" and "array" told apart), its
\* rendering as a string and, for an array, its elements
requiredOf(v) ==
  IF v.type \in {"null", "undefined"} \/ v = [type |-> "string", value |-> ""]
  THEN "This field is required"
  ELSE IF v.type = "array" /\ Len(v.elements) = 0
  THEN "This field is required"
  ELSE ""

\* required(value) for a field value: a string or undefined
required(value) ==
  requiredOf(IF value = Undefined
             THEN [type |-> "undefined", value |-> ""]
             ELSE [type |-> "string", value |-> value])

minLength(value, params) ==
  LET length == IF Len(params) >= 1 THEN params[1] ELSE 1
  IN  IF Falsy(value) THEN ""
      ELSE IF Len(value) >= length THEN ""
      ELSE "Must be at least " \o NumToString(length) \o " characters"

maxLength(value, params) ==
  LET length == IF Len(params) >= 1 THEN params[1] ELSE 100
  IN  IF Falsy(value) THEN ""
      ELSE IF Len(value) <= length THEN ""
      ELSE "Must be no more than " \o NumToString(length) \o " characters"

\* validators.js:87-91  matches(value, fieldToMatch, values, message): the
\* parameters are taken by position, and values[fieldToMatch] raises a
\* TypeError when no `values` is passed
matches(value, params) ==
  LET message == IF Len(params) >= 3 THEN params[3] ELSE "Fields do not match"
  IN  IF Falsy(value) THEN ""
      ELSE IF Len(params) < 2 THEN Raised
      ELSE IF value = Get(params[2], params[1]) THEN ""
      ELSE message

\* builtInValidators[name](value, ...params)
builtInValidators(name, value, params) ==
  CASE name = "required"  -> required(value)
    [] name = "minLength" -> minLength(value, params)
    [] name = "maxLength" -> maxLength(value, params)
    [] name = "matches"   -> matches(value, params)

\* options.customValidators, an object from names to validator functions
customValidators == options.customValidators

\* the validator functions a caller supplies as custom validators:
\*   (value) => value ? '' : 'Name is required'
\*   (value) => value === 'abc' ? 'abc is not allowed' : ''
ApplyCustom(fn, value, params) ==
  CASE fn = "nameRequired" -> IF Falsy(value) THEN "Name is required" ELSE ""
    [] fn = "notAbc"       -> IF value = "abc" THEN "abc is not allowed" ELSE ""

\* the names validators[name] finds on Object.prototype, the prototype of
\* the object literal of part_000:34: 'toString' among them
PrototypeNames == {"toString"}

\* Object.prototype.toString called on the validators object
prototypeMethod(name, value, params) ==
  CASE name = "toString" -> "[object Object]"

\* the names for which validators[name] is truthy
ValidatorNames ==
  BuiltInNames \cup (DOMAIN customValidators) \cup PrototypeNames

\* the merge in the other order, { ...customValidators, ...builtInValidators }:
\* a built-in shadows the custom validator of the same name
validatorsBuiltInFirst(name, value, params) ==
  IF name \in BuiltInNames
  THEN builtInValidators(name, value, params)
  ELSE IF name \in DOMAIN customValidators
  THEN ApplyCustom(customValidators[name], value, params)
  ELSE prototypeMethod(name, value, params)

\* part_000:34-37  validators[name](value, ...params), validators being
\* { ...builtInValidators, ...customValidators }
validators(name, value, params) ==
  IF name \in DOMAIN customValidators
  THEN ApplyCustom(customValidators[name], value, params)
  ELSE IF name \in BuiltInNames
  THEN builtInValidators(name, value, params)
  ELSE prototypeMethod(name, value, params)

(***************************************************************************)
(* Rule declarations of a validation schema.  typeof rule is the `kind`:   *)
(*   "string"   a validator name                      (rule: 'required')   *)
(*   "object"   { validator, params, message }, validator a name (vtype    *)
(*              "string") or a predicate function (vtype "function")       *)
(*   "function" a free function (value, values) => error                   *)
(*   "array"    a list of the rules above                                  *)
(***************************************************************************)
StringRule(n) == [kind |-> "string", validator |-> n]

ObjectRule(n, ps, msg) ==
  [kind |-> "object", vtype |-> "string", validator |-> n,
   params |-> ps, message |-> msg]

PredicateRule(fn, ps, msg) ==
  [kind |-> "object", vtype |-> "function", validator |-> fn,
   params |-> ps, message |-> msg]

FunctionRule(fn) == [kind |-> "function", validator |-> fn]

ArrayRule(rs) == [kind |-> "array", rules |-> rs]

\* README.md:152  (value, values) => value === values.password ? '' : '...'
sameAsPassword(value, allValues) ==
  IF value = Get(allValues, "password") THEN "" ELSE "Passwords do not match"

\* a free function that reads the field's own entry of the values it is
\* handed:  (value, values) =>
\*   values.password !== values.name ? '' : 'Password must differ from the name'
differsFromName(value, allValues) ==
  IF Get(allValues, "password") # Get(allValues, "name")
  THEN ""
  ELSE "Password must differ from the name"

\* rule(value, values) for a free function of the schema
ApplyFunction(fn, value, allValues) ==
  CASE fn = "sameAsPassword"  -> sameAsPassword(value, allValues)
    [] fn = "differsFromName" -> differsFromName(value, allValues)

\* validator(value, ...params) for a predicate function of the schema,
\* a boolean: (value, other) => value !== other
ApplyPredicate(fn, value, params) ==
  CASE fn = "differsFrom" -> value # params[1]

\* message || `Validation failed for ${name}`
MessageOr(message, name) ==
  IF Falsy(message) THEN "Validation failed for " \o name ELSE message

\* part_000:57-73 and 95-109: the body shared by the two object branches.
\* The result of the named validator is negated as a boolean: the rule
\* reports when validators[validator](value, ...params) is falsy, that is
\* the empty string.
objectRule(name, rule, value) ==
  IF /\ rule.vtype = "string"
     /\ rule.validator \in ValidatorNames
     /\ validators(rule.validator, value, rule.params) = Raised
  THEN Raised
  ELSE IF /\ rule.vtype = "string"
          /\ rule.validator \in ValidatorNames
          /\ Falsy(validators(rule.validator, value, rule.params))
  THEN MessageOr(rule.message, name)
  ELSE IF /\ rule.vtype = "function"
          /\ ~ApplyPredicate(rule.validator, value, rule.params)
  THEN MessageOr(rule.message, name)
  ELSE ""

\* part_000:49-80: one iteration of the loop over an array of rules; the
\* result is the error returned from the loop, or "" to go on
ruleInArray(name, rule, value, allValues) ==
  IF rule.kind = "string" /\ rule.validator \in ValidatorNames
     /\ ~Falsy(validators(rule.validator, value, << >>))
  THEN validators(rule.validator, value, << >>)
  ELSE IF rule.kind = "object" /\ ~Falsy(objectRule(name, rule, value))
  THEN objectRule(name, rule, value)
  ELSE IF rule.kind = "function"
          /\ ~Falsy(ApplyFunction(rule.validator, value, allValues))
  THEN ApplyFunction(rule.validator, value, allValues)
  ELSE ""

\* the loop going through every rule and keeping the last error
RECURSIVE arrayRulesLastError(_, _, _, _, _)
arrayRulesLastError(name, rules, i, value, allValues) ==
  IF i > Len(rules) THEN ""
  ELSE LET rest == arrayRulesLastError(name, rules, i + 1, value, allValues)
       IN  IF rest # "" THEN rest
           ELSE ruleInArray(name, rules[i], value, allValues)

RECURSIVE arrayRules(_, _, _, _, _)
arrayRules(name, rules, i, value, allValues) ==
  IF i > Len(rules) THEN ""
  ELSE LET error == ruleInArray(name, rules[i], value, allValues)
       IN  IF error # "" THEN error
           ELSE arrayRules(name, rules, i + 1, value, allValues)

\* part_000:42-112  validateField(name, value), with the validationSchema
\* and the `values` it closes over
validateField(schema, name, value, allValues) ==
  IF name \notin DOMAIN schema THEN ""
  ELSE LET fieldRules == schema[name]
       IN  CASE fieldRules.kind = "array" ->
                  arrayRules(name, fieldRules.rules, 1, value, allValues)
             [] fieldRules.kind = "string" ->
                  IF fieldRules.validator \in ValidatorNames
                  THEN validators(fieldRules.validator, value, << >>)
                  ELSE ""
             [] fieldRules.kind = "function" ->
                  ApplyFunction(fieldRules.validator, value, allValues)
             [] fieldRules.kind = "object" ->
                  objectRule(name, fieldRules, value)

(***************************************************************************)
(* createValidator: src/src/validators.js:132-134.  Its arguments and its  *)
(* result are JavaScript values of several types, modelled as records      *)
(* tagged with typeof.                                                     *)
(***************************************************************************)
String(s) == [type |-> "string", value |-> s]

Function(f) == [type |-> "function", value |-> f]

UndefinedValue == [type |-> "undefined", value |-> ""]

\* !v
FalsyValue(v) == v.type = "undefined" \/ v = String("")

\* the decimal strings "0" .. `${MaxNum}`
Numerals == {NumToString(n) : n \in 0..MaxNum}

\* parseInt(str) for a decimal string
parseInt(str) == CHOOSE n \in 0..MaxNum : NumToString(n) = str

\* the second arguments of the validators under test
Multipliers == {2, 3, 5}

\* validators.test.js:126  (value) => parseInt(value) % 2 === 0
\* validators.test.js:136  (value, multiplier) => parseInt(value) % multiplier === 0
ApplyValidatorFn(validatorFn, value, second) ==
  CASE validatorFn = "isEven"       -> parseInt(value) % 2 = 0
    [] validatorFn = "isMultipleOf" -> parseInt(value) % second = 0

\* the predicates and the default messages handed to createValidator
ValidatorFns == {"isEven", "isMultipleOf"}

DefaultMessages ==
  {String("Must be an even number"), Function("multipleOfMessage"),
   UndefinedValue}

\* validators.js:132-134  createValidator(validatorFn, defaultMessage)(value, values)
createValidator(validatorFn, defaultMessage, value, second) ==
  IF ApplyValidatorFn(validatorFn, value, second)
  THEN String("")
  ELSE IF FalsyValue(defaultMessage)
       THEN String("Validation failed")
       ELSE defaultMessage

NoCall ==
  [fn |-> "", validatorFn |-> "", defaultMessage |-> UndefinedValue, value |-> "",
   second |-> 0, result |-> UndefinedValue]

(***************************************************************************)
(* The inputs of the hook: field names, field values, schemas, initial     *)
(* values and options.                                                     *)
(***************************************************************************)
\* e.target.name: two schema fields and a name outside schema and values
FieldNames == {"name", "password", "other"}

\* the fields whose value is edited
ValueFields == {"name", "password"}

\* e.target.value, for each edited field
Vals(name) == IF name = "name" THEN {"", "abc"} ELSE {"abc", "abcdefgh"}

\* spec.md scenario C and README.md:133  { name: 'required' }
SchemaRequired == [name |-> StringRule("required")]

\* spec.md scenario B
\* { password: [{ validator: 'minLength', params: [8], message: 'too short' }] }
SchemaMinLength ==
  [password |-> ArrayRule(<<ObjectRule("minLength", <<8>>, "too short")>>)]

\* a free function (README.md:152), and an object rule outside an array
\* (README.md:160)
SchemaObject ==
  [name |-> FunctionRule("sameAsPassword"),
   password |-> ObjectRule("minLength", <<8>>, "too short")]

\* a predicate function in an object rule with no message, and string rules
\* in an array (README.md:47)
SchemaList ==
  [name |-> PredicateRule("differsFrom", <<"">>, Undefined),
   password |-> ArrayRule(<<StringRule("required"), StringRule("minLength")>>)]

Schemas == {SchemaRequired, SchemaMinLength, SchemaObject, SchemaList}

InitialValuesSet == {EmptyMap, [name |-> "abc", password |-> "abcdefgh"]}

\* { validateOnChange, validateOnBlur, validateOnSubmit, customValidators }
Options(onChange, onBlur, onSubmit) ==
  [validateOnChange |-> onChange, validateOnBlur |-> onBlur,
   validateOnSubmit |-> onSubmit, customValidators |-> EmptyMap]

\* the defaults, and each option disabled in turn
OptionSets ==
  {Options(TRUE, TRUE, TRUE), Options(FALSE, TRUE, TRUE),
   Options(TRUE, FALSE, TRUE), Options(TRUE, TRUE, FALSE)}

\* the hooks modelled: every schema and initial values under the default
\* options, and one schema under the other options
Hooks ==
  {<<s, i, Options(TRUE, TRUE, TRUE)>> : s \in Schemas, i \in InitialValuesSet}
    \cup {<<SchemaRequired, [name |-> "abc", password |-> "abcdefgh"], o>> :
            o \in OptionSets}

\* the objects a submit callback passes to helpers.setErrors
SetErrorsArgs == {[name |-> "Name is taken", other |-> "Server error"]}

\* the argument of resetForm: none, null, or an object of new values
ResetArgs ==
  {[kind |-> "none"], [kind |-> "null"],
   [kind |-> "object", newValues |-> [name |-> "abc"]]}

vars ==
  <<validationSchema, initialValues, options, values, touched, errors,
    isSubmitting, pending, uncaught, last, call>>

\* what no operation of the form changes
args == <<validationSchema, initialValues, options, call>>

\* the state of the form
form ==
  <<validationSchema, initialValues, options, values, touched, errors,
    isSubmitting, pending, uncaught, last>>

Touched(name) == name \in DOMAIN touched /\ touched[name]

\* part_000:214  Object.keys(errors).length === 0
isValid == DOMAIN errors = {}

Op(op, name) == [op |-> op, name |-> name]

Init ==
  /\ \E hook \in Hooks :
       /\ validationSchema = hook[1]
       /\ initialValues = hook[2]
       /\ options = hook[3]
  /\ values = initialValues
  /\ touched = EmptyMap
  /\ errors = EmptyMap
  /\ isSubmitting = FALSE
  /\ pending = << >>
  /\ uncaught = FALSE
  /\ last = Op("init", "")
  /\ call = NoCall

(***************************************************************************)
(* Operations.                                                             *)
(***************************************************************************)
\* a validateForm that passes over the fields which already have an entry
\* in ErrorMap
newErrorsOfUnflagged ==
  LET error(field) ==
        validateField(validationSchema, field, Get(values, field), values)
  IN  [field \in {f \in (DOMAIN validationSchema) \ (DOMAIN errors) :
                    ~Falsy(error(f))}
         |-> error(field)]

\* part_000:118-127  the newErrors object built by validateForm: the schema
\* fields whose error is truthy
newErrors ==
  LET error(field) ==
        validateField(validationSchema, field, Get(values, field), values)
  IN  [field \in {f \in DOMAIN validationSchema : ~Falsy(error(f))}
         |-> error(field)]

\* part_000:117-131  validateForm(); its return value !hasErrors is kept in
\* `last`
validateForm ==
  /\ errors' = newErrors
  /\ last' = Op("validateForm", IF newErrors = EmptyMap THEN "true" ELSE "false")
  /\ UNCHANGED <<args, values, touched, isSubmitting, pending, uncaught>>

\* handleChange validating the value the field had before the change
handleChangeOldValue(name, value) ==
  /\ values' = Spread(values, name, value)
  /\ IF options.validateOnChange /\ Touched(name)
     THEN errors' = Spread(errors, name,
                           validateField(validationSchema, name,
                                         Get(values, name), values))
     ELSE UNCHANGED errors
  /\ last' = Op("change", name)
  /\ UNCHANGED <<args, touched, isSubmitting, pending, uncaught>>

\* handleChange validating the field whether it is touched or not
handleChangeUntouched(name, value) ==
  /\ values' = Spread(values, name, value)
  /\ IF options.validateOnChange
     THEN errors' = Spread(errors, name,
                           validateField(validationSchema, name, value, values))
     ELSE UNCHANGED errors
  /\ last' = Op("change", name)
  /\ UNCHANGED <<args, touched, isSubmitting, pending, uncaught>>

\* part_000:138-143  the state of the form after handleChange: the values
\* handed to setValues, the ErrorMap handed to setErrors under
\* validateOnChange && touched[name], and what it does not set
handleChangeResult(name, value) ==
  [values |-> Spread(values, name, value),
   errors |-> IF options.validateOnChange /\ Touched(name)
              THEN Spread(errors, name,
                          validateField(validationSchema, name, value, values))
              ELSE errors,
   touched |-> touched,
   isSubmitting |-> isSubmitting]

\* part_000:136-144  handleChange({ target: { name, value } })
handleChange(name, value) ==
  LET result == handleChangeResult(name, value)
  IN  /\ values' = result.values
      /\ errors' = result.errors
      /\ touched' = result.touched
      /\ isSubmitting' = result.isSubmitting
      /\ last' = Op("change", name)
      /\ UNCHANGED <<args, pending, uncaught>>

\* a setValue that stores the value and never revalidates
setValueUnvalidated(name, value) ==
  [values |-> Spread(values, name, value), errors |-> errors,
   touched |-> touched, isSubmitting |-> isSubmitting]

\* part_000:150-155  the state of the form after setValue
setValueResult(name, value) ==
  [values |-> Spread(values, name, value),
   errors |-> IF options.validateOnChange /\ Touched(name)
              THEN Spread(errors, name,
                          validateField(validationSchema, name, value, values))
              ELSE errors,
   touched |-> touched,
   isSubmitting |-> isSubmitting]

\* part_000:149-156  setValue(name, value)
setValue(name, value) ==
  LET result == setValueResult(name, value)
  IN  /\ values' = result.values
      /\ errors' = result.errors
      /\ touched' = result.touched
      /\ isSubmitting' = result.isSubmitting
      /\ last' = Op("setValue", "")
      /\ UNCHANGED <<args, pending, uncaught>>

\* handleBlur marking the field touched only when it validates
handleBlurTouchedWhenValidating(name) ==
  /\ IF options.validateOnBlur
     THEN /\ touched' = Spread(touched, name, TRUE)
          /\ errors' = Spread(errors, name,
                              validateField(validationSchema, name,
                                            Get(values, name), values))
     ELSE UNCHANGED <<touched, errors>>
  /\ last' = Op("blur", name)
  /\ UNCHANGED <<args, values, isSubmitting, pending, uncaught>>

\* a handleBlur that is dropped while a submit callback is pending
handleBlurDroppedWhilePending(name) ==
  /\ IF pending # << >>
     THEN UNCHANGED <<touched, errors>>
     ELSE /\ touched' = Spread(touched, name, TRUE)
          /\ IF options.validateOnBlur
             THEN errors' = Spread(errors, name,
                                   validateField(validationSchema, name,
                                                 Get(values, name), values))
             ELSE UNCHANGED errors
  /\ last' = Op("blur", name)
  /\ UNCHANGED <<args, values, isSubmitting, pending, uncaught>>

\* part_000:161-169  handleBlur({ target: { name } })
handleBlur(name) ==
  /\ touched' = Spread(touched, name, TRUE)
  /\ IF options.validateOnBlur
     THEN errors' = Spread(errors, name,
                           validateField(validationSchema, name,
                                         Get(values, name), values))
     ELSE UNCHANGED errors
  /\ last' = Op("blur", name)
  /\ UNCHANGED <<args, values, isSubmitting, pending, uncaught>>

\* a submit touching every field name of the form rather than the keys of
\* values
touchedOnSubmitEveryName == [key \in FieldNames |-> TRUE]

\* part_000:176  Object.keys(values).reduce((acc, key) => ({...acc, [key]: true}), {})
touchedOnSubmit == [key \in DOMAIN values |-> TRUE]

\* handleSubmit running validateForm whether validateOnSubmit is set or not
handleSubmitAlwaysValidating(hasCallback) ==
  /\ Len(pending) < MaxPending
  /\ touched' = touchedOnSubmit
  /\ errors' = newErrors
  /\ IF newErrors = EmptyMap /\ hasCallback
     THEN /\ pending' = Append(pending, [values |-> values,
                                         helpers |-> {"setErrors", "resetForm"}])
          /\ isSubmitting' = TRUE
          /\ last' = Op("submit", "called")
     ELSE /\ UNCHANGED pending
          /\ isSubmitting' = FALSE
          /\ last' = Op("submit", "skipped")
  /\ UNCHANGED <<args, values, uncaught>>

\* part_000:174-187  handleSubmit(onSubmit)(e) up to its await.  hasCallback
\* tells whether onSubmit is supplied.  When the callback is invoked it is
\* handed the current values object and stays pending until it settles;
\* otherwise the function runs on to setIsSubmitting(false) at once.
handleSubmit(hasCallback) ==
  LET valid == IF options.validateOnSubmit THEN newErrors = EmptyMap ELSE TRUE
  IN  /\ Len(pending) < MaxPending
      /\ touched' = touchedOnSubmit
      /\ IF options.validateOnSubmit
         THEN errors' = newErrors
         ELSE UNCHANGED errors
      /\ IF valid /\ hasCallback
         THEN /\ pending' = Append(pending, [values |-> values,
                                             helpers |-> {"setErrors", "resetForm"}])
              /\ isSubmitting' = TRUE
              /\ last' = Op("submit", "called")
         ELSE /\ UNCHANGED pending
              /\ isSubmitting' = FALSE
              /\ last' = Op("submit", "skipped")
      /\ UNCHANGED <<args, values, uncaught>>

\* part_000:200  newValues || initialValues, newValues defaulting to {}
resetValues(arg) ==
  CASE arg.kind = "none"   -> EmptyMap
    [] arg.kind = "null"   -> initialValues
    [] arg.kind = "object" -> arg.newValues

\* a resetForm that keeps TouchedMap
resetFormKeepingTouched(arg) ==
  /\ values' = resetValues(arg)
  /\ errors' = EmptyMap
  /\ isSubmitting' = FALSE
  /\ last' = Op("resetForm", arg.kind)
  /\ UNCHANGED <<args, touched, pending, uncaught>>

\* part_000:199-204  resetForm(newValues = {})
resetForm(arg) ==
  /\ values' = resetValues(arg)
  /\ touched' = EmptyMap
  /\ errors' = EmptyMap
  /\ isSubmitting' = FALSE
  /\ last' = Op("resetForm", arg.kind)
  /\ UNCHANGED <<args, pending, uncaught>>

\* part_000:187  a pending callback calls helpers.setErrors(obj)
callbackSetErrors(obj) ==
  /\ pending # << >>
  /\ errors' = obj
  /\ last' = Op("setErrors", "")
  /\ UNCHANGED <<args, values, touched, isSubmitting, pending, uncaught>>

\* part_000:187  a pending callback calls helpers.resetForm(...)
callbackResetForm(arg) ==
  /\ pending # << >>
  /\ values' = resetValues(arg)
  /\ touched' = EmptyMap
  /\ errors' = EmptyMap
  /\ isSubmitting' = FALSE
  /\ last' = Op("callbackResetForm", "")
  /\ UNCHANGED <<args, pending, uncaught>>

\* s without its i-th element
Remove(s, i) == [j \in 1..(Len(s) - 1) |-> IF j < i THEN s[j] ELSE s[j + 1]]

\* settle without the try/catch of lines 186-190: a failure of the callback
\* leaves handleSubmit before line 193
settleWithoutCatch(i, outcome) ==
  /\ i \in 1..Len(pending)
  /\ pending' = Remove(pending, i)
  /\ IF outcome = "rejected"
     THEN uncaught' = TRUE /\ UNCHANGED isSubmitting
     ELSE uncaught' = uncaught /\ isSubmitting' = FALSE
  /\ last' = Op("settle", outcome)
  /\ UNCHANGED <<args, values, touched, errors>>

\* part_000:186-193  the i-th pending callback settles: it returns or its
\* promise resolves (outcome "resolved"), or it throws or its promise
\* rejects (outcome "rejected", caught at line 188); line 193 follows.
settle(i, outcome) ==
  /\ i \in 1..Len(pending)
  /\ pending' = Remove(pending, i)
  /\ isSubmitting' = FALSE
  /\ uncaught' = uncaught
  /\ last' = Op("settle", outcome)
  /\ UNCHANGED <<args, values, touched, errors>>

Next ==
  \/ \E name \in ValueFields : \E value \in Vals(name) : handleChange(name, value)
  \/ \E name \in ValueFields : \E value \in Vals(name) : setValue(name, value)
  \/ \E name \in FieldNames : handleBlur(name)
  \/ validateForm
  \/ \E hasCallback \in BOOLEAN : handleSubmit(hasCallback)
  \/ \E arg \in ResetArgs : resetForm(arg)
  \/ \E obj \in SetErrorsArgs : callbackSetErrors(obj)
  \/ \E arg \in ResetArgs : callbackResetForm(arg)
  \/ \E i \in 1..MaxPending, outcome \in {"resolved", "rejected"} :
       settle(i, outcome)

Spec == Init /\ [][Next]_vars

\* the form used with submit callbacks that never call helpers.setErrors
NextWithoutSetErrors ==
  \/ \E name \in ValueFields : \E value \in Vals(name) : handleChange(name, value)
  \/ \E name \in ValueFields : \E value \in Vals(name) : setValue(name, value)
  \/ \E name \in FieldNames : handleBlur(name)
  \/ validateForm
  \/ \E hasCallback \in BOOLEAN : handleSubmit(hasCallback)
  \/ \E arg \in ResetArgs : resetForm(arg)
  \/ \E arg \in ResetArgs : callbackResetForm(arg)
  \/ \E i \in 1..MaxPending, outcome \in {"resolved", "rejected"} :
       settle(i, outcome)

SpecWithoutSetErrors == Init /\ [][NextWithoutSetErrors]_vars

\* the form constructed with a free function on the field password that
\* compares two entries of the values it is handed
SchemaAllValues == [password |-> FunctionRule("differsFromName")]

InitAllValues ==
  /\ validationSchema = SchemaAllValues
  /\ initialValues = [name |-> "abc", password |-> "abcdefgh"]
  /\ options = Options(TRUE, TRUE, TRUE)
  /\ values = initialValues
  /\ touched = EmptyMap
  /\ errors = EmptyMap
  /\ isSubmitting = FALSE
  /\ pending = << >>
  /\ uncaught = FALSE
  /\ last = Op("init", "")
  /\ call = NoCall

SpecAllValues == InitAllValues /\ [][Next]_vars

(***************************************************************************)
(* The specification of createValidator: a validator is made from a        *)
(* predicate and a default message and is called; the form stays as        *)
(* constructed.                                                            *)
(***************************************************************************)
callValidator(validatorFn, defaultMessage, value, second) ==
  /\ call' = [fn |-> "createValidator",
              validatorFn |-> validatorFn, defaultMessage |-> defaultMessage,
              value |-> value, second |-> second,
              result |-> createValidator(validatorFn, defaultMessage,
                                         value, second)]
  /\ UNCHANGED form

NextValidator ==
  \E validatorFn \in ValidatorFns, defaultMessage \in DefaultMessages,
     value \in Numerals, second \in Multipliers :
    callValidator(validatorFn, defaultMessage, value, second)

SpecValidator == Init /\ [][NextValidator]_vars

(***************************************************************************)
(* The specification of the schema resolver: a hook is constructed with a  *)
(* schema for the field "name", custom validators and values, and          *)
(* validateField is called on the field with any value.                    *)
(***************************************************************************)
\* names no registry has: a misspelt name, and a name of Object.prototype
UnknownNames == {"nope", "toString"}

\* the rules a schema is made of
SingleRules ==
  {StringRule("required"), StringRule("matches"), StringRule("notAbc"),
   ObjectRule("required", << >>, "Name is needed"),
   ObjectRule("matches", <<"password">>, "Must match the password"),
   ObjectRule("matches", <<"password">>, Undefined),
   FunctionRule("sameAsPassword"),
   PredicateRule("differsFrom", <<"">>, Undefined)}
    \cup {StringRule(n) : n \in UnknownNames}
    \cup {ObjectRule(n, << >>, "never") : n \in UnknownNames}

ResolverSchemas ==
  {[name |-> r] : r \in SingleRules}
    \cup {[name |-> ArrayRule(<<r1, r2>>)] : r1 \in SingleRules, r2 \in SingleRules}

\* options.customValidators: none, one under the name of a built-in, one
\* under a new name
CustomValidatorSets ==
  {EmptyMap, [required |-> "nameRequired"], [notAbc |-> "notAbc"]}

\* the value validateField is given
ResolverVals == {Undefined, "", "abc", "abcdefgh"}

ResolverValues == {[password |-> "abc"], [password |-> "abcdefgh"]}

InitResolver ==
  /\ validationSchema \in ResolverSchemas
  /\ initialValues \in ResolverValues
  /\ \E custom \in CustomValidatorSets :
       options = [Options(TRUE, TRUE, TRUE) EXCEPT !.customValidators = custom]
  /\ values = initialValues
  /\ touched = EmptyMap
  /\ errors = EmptyMap
  /\ isSubmitting = FALSE
  /\ pending = << >>
  /\ uncaught = FALSE
  /\ last = Op("init", "")
  /\ call = NoCall

\* part_000:42  validateField("name", value)
callValidateField(value) ==
  /\ call' = [fn |-> "validateField", value |-> value,
              result |-> validateField(validationSchema, "name", value, values)]
  /\ UNCHANGED form

NextResolver == \E value \in ResolverVals : callValidateField(value)

SpecResolver == InitResolver /\ [][NextResolver]_vars

(***************************************************************************)
(* The specification of the built-in validators required and compose:      *)
(* each is called as the tests call it; the form stays as constructed.     *)
(***************************************************************************)
\* validators.test.js:7-15  the values `required` is given
RequiredArguments ==
  {[type |-> "null", value |-> "null"], UndefinedValue,
   String(""), String("value"),
   [type |-> "number", value |-> "0"], [type |-> "number", value |-> "1"],
   [type |-> "boolean", value |-> "false"], [type |-> "boolean", value |-> "true"],
   [type |-> "array", value |-> "", elements |-> << >>],
   [type |-> "array", value |-> "1", elements |-> <<1>>]}

\* the validators handed to compose:
\*   validators.test.js:113  (value) => parseInt(value) % 2 === 0 ? '' : 'Must be even'
\*   validators.test.js:114  (value) => parseInt(value) > 0 ? '' : 'Must be positive'
\*   (value, values) => value === values.password ? '' : '...' (README.md:152),
\*   which raises a TypeError when no `values` is passed
SubValidators == {"mustBeEven", "mustBePositive", "sameAsPassword"}

\* validator(value, values) with values undefined, as the tests call it
ApplySubValidator(validator, value) ==
  CASE validator = "mustBeEven" ->
         IF parseInt(value) % 2 = 0 THEN "" ELSE "Must be even"
    [] validator = "mustBePositive" ->
         IF parseInt(value) > 0 THEN "" ELSE "Must be positive"
    [] validator = "sameAsPassword" -> Raised

\* compose evaluating every validator and keeping the last error
RECURSIVE composeLastError(_, _, _)
composeLastError(subs, i, value) ==
  IF i > Len(subs) THEN ""
  ELSE LET rest == composeLastError(subs, i + 1, value)
       IN  IF rest # "" THEN rest ELSE ApplySubValidator(subs[i], value)

\* validators.js:120-126  compose(...validators)(value, values), from the
\* i-th validator on
RECURSIVE compose(_, _, _)
compose(subs, i, value) ==
  IF i > Len(subs) THEN ""
  ELSE LET error == ApplySubValidator(subs[i], value)
       IN  IF error # "" THEN error ELSE compose(subs, i + 1, value)

\* the argument lists of compose
Compositions ==
  {<<v>> : v \in SubValidators}
    \cup {<<v1, v2>> : v1 \in SubValidators, v2 \in SubValidators}

callRequired(argument) ==
  /\ call' = [fn |-> "required", value |-> argument,
              result |-> requiredOf(argument)]
  /\ UNCHANGED form

callCompose(subs, value) ==
  /\ call' = [fn |-> "compose", validators |-> subs, value |-> value,
              result |-> compose(subs, 1, value)]
  /\ UNCHANGED form

NextBuiltIns ==
  \/ \E argument \in RequiredArguments : callRequired(argument)
  \/ \E subs \in Compositions, value \in Numerals : callCompose(subs, value)

SpecBuiltIns == Init /\ [][NextBuiltIns]_vars

(***************************************************************************)
(* Properties.                                                             *)
(***************************************************************************)
\* the object rule with a named validator that alone decides field f, if any
NamedObjectRules(f) ==
  LET r == validationSchema[f]
  IN  IF r.kind = "object" /\ r.vtype = "string" THEN {r}
      ELSE IF /\ r.kind = "array" /\ Len(r.rules) = 1
              /\ r.rules[1].kind = "object" /\ r.rules[1].vtype = "string"
      THEN {r.rules[1]}
      ELSE {}

\* C1: a structured rule {validator: <built-in name>, params, message}
\* reports `message` for a field exactly when the value fails that built-in
\* validator with those params (the validator returns a non-empty error),
\* and reports no error when the value passes; stated of the error a blur
\* records for the field.
C1_ObjectRuleReportsFailure ==
  \A f \in DOMAIN validationSchema : \A r \in NamedObjectRules(f) :
    (last = Op("blur", f) /\ options.validateOnBlur) =>
      Get(errors, f) =
        IF builtInValidators(r.validator, Get(values, f), r.params) # ""
        THEN r.message ELSE ""

\* C2: resetForm() with no arguments leaves FormValues equal to the initial
\* values supplied at construction and ErrorMap and TouchedMap empty.
C2_ResetRestoresInitialValues ==
  last = Op("resetForm", "none") =>
    values = initialValues /\ errors = EmptyMap /\ touched = EmptyMap

\* C3: in every reachable state isValid is true if and only if ErrorMap
\* contains no non-empty error message.
C3_IsValidIffNoError ==
  isValid <=> (\A f \in DOMAIN errors : errors[f] = "")

\* rule declaration `rule` of field `name` is not satisfied by `value`:
\* a validator or free function returns a non-empty error, a predicate
\* returns false
RECURSIVE Fails(_, _, _)
Fails(rule, value, allValues) ==
  CASE rule.kind = "string" ->
         /\ rule.validator \in ValidatorNames
         /\ validators(rule.validator, value, << >>) # ""
    [] rule.kind = "object" ->
         IF rule.vtype = "string"
         THEN /\ rule.validator \in ValidatorNames
              /\ validators(rule.validator, value, rule.params) # ""
         ELSE ~ApplyPredicate(rule.validator, value, rule.params)
    [] rule.kind = "function" ->
         ApplyFunction(rule.validator, value, allValues) # ""
    [] rule.kind = "array" ->
         \E i \in 1..Len(rule.rules) : Fails(rule.rules[i], value, allValues)

\* the schema fields whose current value fails its rules
FailingFields ==
  {f \in DOMAIN validationSchema :
     Fails(validationSchema[f], Get(values, f), values)}

\* C4: with validate-on-submit enabled, a submit(cb) issued in a state where
\* at least one schema field fails its rules never invokes cb.
C4_InvalidSubmitNeverCalls ==
  [][(/\ options.validateOnSubmit
      /\ FailingFields # {}
      /\ handleSubmit(TRUE)) => pending' = pending]_vars

\* C5: a submit(cb) issued when every schema field passes validation
\* invokes cb exactly once, with the FormValues current at the time of the
\* submit and helpers exposing setErrors and resetForm, and isSubmitting
\* is true while cb is pending and false once cb settles.
C5_ValidSubmitCallsOnce ==
  [][/\ (FailingFields = {} /\ handleSubmit(TRUE)) =>
          /\ pending' = Append(pending, [values |-> values,
                                         helpers |-> {"setErrors", "resetForm"}])
          /\ isSubmitting'
     /\ last'.op = "settle" => ~isSubmitting']_vars

\* C6: a failure of the submit callback is caught inside submit and not
\* propagated to submit's caller, and a submit whose callback settles,
\* successfully or with a failure, leaves isSubmitting = false.
C6_CallbackFailureCaught ==
  /\ ~uncaught
  /\ last.op = "settle" => ~isSubmitting

C6_Witness ==
  last = Op("settle", "rejected") /\ ~isSubmitting /\ ~uncaught

\* validators.test.js:137  (value, multiplier) => `Must be a multiple of ${multiplier}`
ApplyMessageFn(messageFn, value, second) ==
  CASE messageFn = "multipleOfMessage" ->
         "Must be a multiple of " \o NumToString(second)

\* C7: createValidator(predicate, messageFn), where messageFn is a function,
\* returns a validator that on a falsy predicate result returns the string
\* computed by calling messageFn with (value, ...params), and returns the
\* empty string when the predicate is truthy.
C7_MessageFunctionIsCalled ==
  (call.validatorFn # "" /\ call.defaultMessage.type = "function") =>
    call.result =
      IF ApplyValidatorFn(call.validatorFn, call.value, call.second)
      THEN String("")
      ELSE String(ApplyMessageFn(call.defaultMessage.value, call.value,
                                 call.second))

\* C8: once touched[f] is true it stays true after every later change,
\* blur, setValue, validateForm and submit; only resetForm makes it false.
C8_TouchedMonotonic ==
  [][\A f \in FieldNames :
       (Touched(f) /\ last'.op \notin {"resetForm", "callbackResetForm"})
         => Touched(f)']_vars

\* the keys of ErrorMap and TouchedMap lie in the schema keys and the
\* FormValues keys
KeysWithin ==
  (DOMAIN errors) \cup (DOMAIN touched)
    \subseteq (DOMAIN validationSchema) \cup (DOMAIN values)

ForeignName ==
  \/ /\ last'.op = "blur"
     /\ last'.name \notin (DOMAIN validationSchema) \cup (DOMAIN values)
  \/ /\ last'.op = "setErrors"
     /\ ~((DOMAIN errors') \subseteq (DOMAIN validationSchema) \cup (DOMAIN values))

C10_ChangeRevalidatesTouched ==
  [][\A f \in ValueFields :
       (last' = Op("change", f) /\ options.validateOnChange /\ Touched(f)) =>
         errors' = Spread(errors, f,
                          validateField(validationSchema, f, values'[f],
                                        values))]_vars

\* spec.md scenario C: blur('name') then change('name', '')
C10_Witness ==
  /\ last = Op("change", "name")
  /\ validationSchema = SchemaRequired
  /\ options.validateOnChange
  /\ Touched("name")
  /\ Get(values, "name") = ""
  /\ Get(errors, "name") = "This field is required"

\* the resolution of the single rule `rule` for the field "name": what
\* validateField returns under the schema { name: rule }
SingleRule(rule, value) ==
  validateField([name |-> rule], "name", value, values)

C12_ValidateFormKeepsFailingFields ==
  last.op = "validateForm" =>
    /\ DOMAIN errors = FailingFields
    /\ last.name = "true" <=> errors = EmptyMap

\* C13: validateForm is idempotent: from any reachable state, calling
\* validateForm() twice in a row with no value change in between yields the
\* same ErrorMap and the same return value both times; that is, in the
\* state a call leaves, a further call computes the ErrorMap and the return
\* value already there.
C13_ValidateFormIdempotent ==
  last.op = "validateForm" =>
    /\ newErrors = errors
    /\ last.name = IF newErrors = EmptyMap THEN "true" ELSE "false"

C13_Witness ==
  /\ last = Op("validateForm", "false")
  /\ errors # EmptyMap
  /\ newErrors = errors

\* C14: when a schema rule applies the built-in `matches` validator to a
\* field with the other field's name as its parameter, resolving that field
\* yields no error iff its value is empty or equals the current value of
\* the other field in FormValues, and otherwise yields the supplied message
\* or 'Fields do not match'; it never raises.
C14_MatchesComparesFields ==
  LET rule == validationSchema["name"]
  IN  (/\ call.fn = "validateField"
       /\ rule.kind = "object" /\ rule.vtype = "string"
       /\ rule.validator = "matches"
       /\ DOMAIN customValidators = {}) =>
        call.result =
          IF Falsy(call.value) \/ call.value = Get(values, rule.params[1])
          THEN ""
          ELSE IF Falsy(rule.message) THEN "Fields do not match"
          ELSE rule.message

\* the rules of the resolver's schema that name a validator no registry has
IsUnknown(rule) ==
  /\ rule.kind \in {"string", "object"}
  /\ rule.kind = "object" => rule.vtype = "string"
  /\ rule.validator \in UnknownNames

\* C15: a rule that names a validator absent from the registry (as a plain
\* string, inside a rule list, or as the `validator` of a structured rule)
\* contributes no error and raises nothing: the resolver behaves as if that
\* rule were skipped, and later rules in the same list are still evaluated.
C15_UnknownValidatorSkipped ==
  LET rule == validationSchema["name"]
  IN  call.fn = "validateField" =>
        /\ IsUnknown(rule) => call.result = ""
        /\ (rule.kind = "array" /\ IsUnknown(rule.rules[1])) =>
             call.result = SingleRule(rule.rules[2], call.value)
        /\ (rule.kind = "array" /\ IsUnknown(rule.rules[2])
              /\ ~IsUnknown(rule.rules[1])) =>
             call.result = SingleRule(rule.rules[1], call.value)

\* C16: a custom validator supplied at construction under the name of a
\* built-in validator overrides it: a rule that names it resolves through
\* the custom function, never the built-in one, and built-ins with other
\* names stay available.
C16_CustomOverridesBuiltIn ==
  LET rule == validationSchema["name"]
  IN  call.fn = "validateField" =>
        /\ (rule.kind = "string" /\ rule.validator \in DOMAIN customValidators) =>
             call.result =
               ApplyCustom(customValidators[rule.validator], call.value, << >>)
        /\ "required" \in DOMAIN customValidators =>
             call.result # "This field is required"
        /\ (rule.kind = "string" /\ rule.validator \in BuiltInNames
              /\ rule.validator \notin DOMAIN customValidators) =>
             call.result = builtInValidators(rule.validator, call.value, << >>)

C16_Witness ==
  /\ call.fn = "validateField"
  /\ customValidators = [required |-> "nameRequired"]
  /\ validationSchema = [name |-> StringRule("required")]
  /\ call.value = ""
  /\ call.result = "Name is required"

\* C17: `required` returns a non-empty message for null, undefined, the
\* empty string and an empty sequence, and returns empty for every other
\* value, including 0, false and a non-empty sequence.
C17_RequiredRejectsEmptyOnly ==
  call.fn = "required" =>
    (call.result # "" <=>
       \/ call.value.type \in {"null", "undefined"}
       \/ call.value = String("")
       \/ call.value.type = "array" /\ call.value.elements = << >>)

C17_Witness ==
  /\ call.fn = "required"
  /\ call.value = [type |-> "number", value |-> "0"]
  /\ call.result = ""

\* C18: compose(v1, v2, ...) returns a validator whose result is the first
\* non-empty result among the sub-validators taken in order, without
\* calling the sub-validators after it (one that would raise does not), and
\* is empty iff every sub-validator returns empty.
C18_ComposeReturnsFirstError ==
  call.fn = "compose" =>
    LET subs == call.validators
        failing == {i \in 1..Len(subs) :
                      ApplySubValidator(subs[i], call.value) # ""}
        first == CHOOSE i \in failing : \A j \in failing : i <= j
    IN  call.result =
          IF failing = {} THEN ""
          ELSE ApplySubValidator(subs[first], call.value)

\* the first validator reports and the second, which would raise, is not
\* called
C18_Witness ==
  /\ call.fn = "compose"
  /\ call.validators = <<"mustBeEven", "sameAsPassword">>
  /\ call.value = "3"
  /\ call.result = "Must be even"

\* C19: in every reachable state, including states reached by
\* overlapping submit calls and by resetForm called while a callback is
\* pending, isSubmitting is true whenever some submit callback has been
\* invoked and has not yet settled.
C19_SubmittingWhilePending == pending # << >> => isSubmitting

\* C20: change(f, v) never modifies TouchedMap, and when f is not touched
\* or validate-on-change is disabled it also leaves ErrorMap unchanged; the
\* only state it then changes is values[f].
C20_ChangeFrame ==
  [][\A f \in ValueFields :
       last' = Op("change", f) =>
         /\ touched' = touched
         /\ ~(options.validateOnChange /\ Touched(f)) =>
              /\ errors' = errors
              /\ values' = Spread(values, f, values'[f])
              /\ isSubmitting' = isSubmitting
              /\ pending' = pending]_vars

\* an untouched field is given a value that fails its rule, and no error
\* is recorded
C20_Witness ==
  /\ last = Op("change", "name")
  /\ validationSchema = SchemaRequired
  /\ options.validateOnChange
  /\ ~Touched("name")
  /\ Get(values, "name") = ""
  /\ errors = EmptyMap

\* the ErrorMap after a revalidation of field f with value v: the entry of
\* f set to the resolver's result, the other entries kept
Revalidated(f, v) ==
  Spread(errors, f, validateField(validationSchema, f, v, values))

\* C21: blur(f) always sets touched[f] = true, whether validate-on-blur is
\* enabled or not; when validate-on-blur is disabled it leaves ErrorMap
\* unchanged, and when enabled it sets errors[f] to the resolver's result
\* for the current values[f] and leaves the other entries unchanged;
\* FormValues is never changed by blur.
C21_BlurTouchesAndRevalidates ==
  [][\A f \in FieldNames :
       last' = Op("blur", f) =>
         /\ touched' = Spread(touched, f, TRUE)
         /\ errors' = IF options.validateOnBlur
                      THEN Revalidated(f, Get(values, f))
                      ELSE errors
         /\ values' = values]_vars

\* a field whose value fails its rule is blurred with validate-on-blur
\* disabled: it is touched and has no error
C21_Witness ==
  /\ last = Op("blur", "name")
  /\ ~options.validateOnBlur
  /\ validationSchema = SchemaRequired
  /\ Get(values, "name") = ""
  /\ Touched("name")
  /\ errors = EmptyMap

\* C22: with validate-on-submit disabled, submit(cb) treats the form as
\* valid unconditionally: it invokes cb exactly once, with the current
\* values, even when schema fields fail their rules or ErrorMap already
\* holds errors, and it does not modify ErrorMap itself.
C22_SubmitUnvalidatedCalls ==
  [][(~options.validateOnSubmit /\ handleSubmit(TRUE)) =>
       /\ pending' = Append(pending, [values |-> values,
                                      helpers |-> {"setErrors", "resetForm"}])
       /\ errors' = errors]_vars

C22_Witness ==
  /\ last = Op("submit", "called")
  /\ ~options.validateOnSubmit
  /\ FailingFields # {}
  /\ errors # EmptyMap
  /\ Len(pending) = 1

\* C23: while a submit callback is pending, change, blur and setValue are
\* not queued or blocked: each takes effect on FormValues, TouchedMap and
\* ErrorMap immediately, exactly as it would with no submit in flight, and
\* the values object already handed to the pending callback is not altered.
C23_EditsWhilePending ==
  [][pending # << >> =>
       /\ \A f \in ValueFields :
            last' = Op("change", f) =>
              /\ values' = Spread(values, f, Get(values', f))
              /\ touched' = touched
              /\ errors' = IF options.validateOnChange /\ Touched(f)
                           THEN Revalidated(f, Get(values', f))
                           ELSE errors
              /\ pending' = pending
       /\ last'.op = "setValue" =>
            \E f \in ValueFields :
              /\ values' = Spread(values, f, Get(values', f))
              /\ touched' = touched
              /\ errors' = IF options.validateOnChange /\ Touched(f)
                           THEN Revalidated(f, Get(values', f))
                           ELSE errors
              /\ pending' = pending
       /\ \A f \in FieldNames :
            last' = Op("blur", f) =>
              /\ values' = values
              /\ touched' = Spread(touched, f, TRUE)
              /\ errors' = IF options.validateOnBlur
                           THEN Revalidated(f, Get(values, f))
                           ELSE errors
              /\ pending' = pending]_vars

\* a value is set while the callback is pending: the form has the new
\* value, the callback's values object the one it was handed
C23_Witness ==
  /\ last.op = "setValue"
  /\ pending # << >>
  /\ "name" \in DOMAIN values
  /\ pending[1].values = [name |-> "abc", password |-> "abcdefgh"]
  /\ values = [name |-> "", password |-> "abcdefgh"]

\* C24: setValue(f, v) and change(f, v) are equivalent: from any reachable
\* state, applying either one yields the same FormValues, TouchedMap,
\* ErrorMap and isSubmitting.
C24_SetValueIsChange ==
  \A f \in ValueFields : \A v \in Vals(f) :
    handleChangeResult(f, v) = setValueResult(f, v)

\* setValue has revalidated a touched field
C24_Witness ==
  /\ last.op = "setValue"
  /\ validationSchema = SchemaRequired
  /\ options.validateOnChange
  /\ Touched("name")
  /\ Get(values, "name") = ""
  /\ Get(errors, "name") = "This field is required"

\* the rules that depend only on the field's own value: every rule but a
\* free function, which is handed all the values
OwnValueRule(rule) ==
  /\ rule.kind # "function"
  /\ rule.kind = "array" =>
       \A i \in 1..Len(rule.rules) : rule.rules[i].kind # "function"

OwnValueSchema == \A f \in DOMAIN validationSchema : OwnValueRule(validationSchema[f])

\* errors[f], an absent entry counted as empty
ErrorOf(f) == IF f \in DOMAIN errors THEN errors[f] ELSE ""

\* no touched field shows a stale error
Fresh ==
  \A f \in DOMAIN touched :
    Touched(f) =>
      ErrorOf(f) = validateField(validationSchema, f, Get(values, f), values)

\* C25: with validate-on-change and validate-on-blur enabled, a schema
\* whose rules depend only on the field's own value, and no setErrors call
\* from a submit callback, every reachable state satisfies: for each touched
\* field f, errors[f] (absent counted as empty) equals the resolver's result
\* for the current values[f].
C25_TouchedNeverStale ==
  (/\ options.validateOnChange /\ options.validateOnBlur
   /\ OwnValueSchema) => Fresh

\* C25, amended: the same with validate-on-submit enabled as well; with it
\* disabled a submit marks every field of FormValues touched without
\* computing its error.
C25_TouchedNeverStaleWhenSubmitValidates ==
  (/\ options.validateOnChange /\ options.validateOnBlur
   /\ options.validateOnSubmit
   /\ OwnValueSchema) => Fresh

\* a submit has touched a field that was changed to a failing value while
\* untouched, and its error is there
C25_Witness ==
  /\ last.op = "submit"
  /\ options.validateOnChange /\ options.validateOnBlur
  /\ options.validateOnSubmit
  /\ validationSchema = SchemaRequired
  /\ Touched("name")
  /\ Get(values, "name") = ""
  /\ ErrorOf("name") = "This field is required"
  /\ Fresh

\* the step sets the field f: a change of f, or a setValue that gives f
\* another value
Sets(f) ==
  \/ last' = Op("change", f)
  \/ last'.op = "setValue" /\ Get(values', f) # Get(values, f)

\* C26: when change(f, v) or setValue(f, v) revalidates a touched field f
\* whose rule is a free function (value, allValues), the allValues passed to
\* that function already reflects the change, i.e. allValues[f] = v and the
\* other fields hold their current values: the error recorded is the
\* function's result for v and the values after the change.
C26_AllValuesReflectChange ==
  [][\A f \in ValueFields :
       (/\ Sets(f)
        /\ options.validateOnChange /\ Touched(f)
        /\ f \in DOMAIN validationSchema
        /\ validationSchema[f].kind = "function") =>
         Get(errors', f) =
           ApplyFunction(validationSchema[f].validator, Get(values', f), values')]_vars

====
